---- MODULE Spec2Model ----
(***************************************************************************)
(* A model of the go-scim core: the projection-aware JSON serializer       *)
(* (package json), the multi-valued property (package prop) and the        *)
(* replace service (package services) with its HTTP handler (package       *)
(* handler).                                                               *)
(***************************************************************************)
EXTENDS Integers, Sequences, FiniteSets, TLC

VARIABLES
    schema,     \* attribute id -> [returned, mutability, type]
    res,        \* the resource being serialized: [assigned, nElems, float]
    options,    \* the options given to Serialize: [included, excluded]
    pc,         \* position of Serialize: "start", "visit", "done", "panicked"
    ser,        \* the serializer: [includeFamily, excludeFamily, stack, buf]
    todo,       \* what is left of the depth-first traversal
    asked,      \* every ShouldVisit call so far: [node, result]
    emitted,    \* the properties Visit was called on, in order
    result,     \* what Serialize returned: [bytesNil, bytes, err]
    mvAttr,     \* attribute of the multi-valued property: [type, caseExact]
    mv,         \* the multi-valued property: [parent, elements, touched,
                \* subscribers]
    mvLast,     \* the last call on it: its operation and what it returned
    svc,        \* the replace service: [db, lock, event, calls]
    hnd         \* the Replace handler invocations: call -> [pc, stage, resp]

serVars == <<schema, res, options, pc, ser, todo, asked, emitted, result>>

mvVars == <<mvAttr, mv, mvLast>>

vars == <<schema, res, options, pc, ser, todo, asked, emitted, result,
          mvAttr, mv, mvLast, svc, hnd>>

(***************************************************************************)
(* Bounds                                                                  *)
(***************************************************************************)
\* longest included / excluded list of the options
MaxPaths == 1
\* most elements of the multi-valued "emails" property of the resource
MaxElems == 1
\* longest sequence of values given to one Add or Replace call
MaxAdd == 2
\* most elements the multi-valued property is grown to
MaxChildren == 3

\* most subscribers registered on one property
MaxSubs == 2

\* concurrent ReplaceResource calls for one resource ID
MaxCalls == 2

(***************************************************************************)
(* Schema: a resource type with a simple attribute, a complex attribute    *)
(* and a multi-valued complex attribute.  An attribute ID is the sequence  *)
(* of names from the root.                                                 *)
(***************************************************************************)
AttrIds ==
    { <<"id">>, <<"name">>, <<"name", "familyName">>, <<"name", "givenName">>,
      <<"emails">>, <<"emails", "value">> }

AttrNames == {"id", "name", "familyName", "givenName", "emails", "value"}

\* sub-attributes in declaration order (the root lists the top-level ones)
SubAttributes(id) ==
    IF id = <<>> THEN <<"id", "name", "emails">>
    ELSE IF id = <<"name">> THEN <<"familyName", "givenName">>
    ELSE IF id = <<"emails">> THEN <<"value">>
    ELSE <<>>

MultiValuedAttr(id) == id = <<"emails">>

ComplexAttr(id) == id \in {<<>>, <<"name">>, <<"emails">>}

ReturnedValues == {"always", "never", "default", "request"}

MutabilityValues == {"readWrite", "writeOnly"}

BaseSchema ==
    [a \in AttrIds |->
        [returned |-> IF a = <<"id">> THEN "always" ELSE "default",
         mutability |-> IF a = <<"id">> THEN "readOnly" ELSE "readWrite",
         type |-> IF ComplexAttr(a) THEN "complex" ELSE "string"]]

\* the base schema, or the base schema with one attribute redefined
Schemas ==
    {BaseSchema} \cup
    { [BaseSchema EXCEPT ![a].returned = r, ![a].mutability = m] :
        a \in AttrIds, r \in ReturnedValues, m \in MutabilityValues }

\* the base schema with one leaf attribute of type decimal
DecimalSchemas ==
    { [BaseSchema EXCEPT ![a].type = "decimal"] :
        a \in {b \in AttrIds : ~ComplexAttr(b)} }

(***************************************************************************)
(* The property tree of the resource.  A property is named by the sequence *)
(* of child names from the root; the i-th element of a multi-valued        *)
(* property is named by ToString(i).                                       *)
(***************************************************************************)
Root == <<>>

Last(s) == s[Len(s)]

\* Attribute().ID(): an element shares the ID of its multi-valued parent
AttrOf(n) == SelectSeq(n, LAMBDA x : x \in AttrNames)

IsElement(n) == Len(n) > 0 /\ Last(n) \notin AttrNames

IsMultiProp(n) == ~IsElement(n) /\ MultiValuedAttr(AttrOf(n))

IsContainer(n) == IsMultiProp(n) \/ ComplexAttr(AttrOf(n))

Children(n) ==
    IF IsMultiProp(n)
    THEN [i \in 1..res.nElems |-> Append(n, ToString(i))]
    ELSE LET subs == SubAttributes(AttrOf(n))
         IN  [i \in 1..Len(subs) |-> Append(n, subs[i])]

LeafProps ==
    { <<"id">>, <<"name", "familyName">>, <<"name", "givenName">> }

RECURSIVE IsUnassigned(_)
IsUnassigned(n) ==
    IF IsContainer(n)
    THEN \A i \in 1..Len(Children(n)) : IsUnassigned(Children(n)[i])
    ELSE IF n \in LeafProps THEN n \notin res.assigned
    ELSE FALSE

\* the float64 an assigned decimal property holds
FloatKinds == {"finite", "NaN", "+Inf", "-Inf"}

Resources ==
    [assigned : SUBSET LeafProps, nElems : 0..MaxElems, float : {"finite"}]

DecimalResources ==
    [assigned : SUBSET LeafProps, nElems : 0..MaxElems, float : FloatKinds]

(***************************************************************************)
(* Paths and path families                                                 *)
(***************************************************************************)
IsPrefix(p, q) == Len(p) < Len(q) /\ SubSeq(q, 1, Len(p)) = p

NilFamily == [isNil |-> TRUE, paths |-> {}]

NewPathFamily == [isNil |-> FALSE, paths |-> {}]

FamilyAdd(f, p) == [f EXCEPT !.paths = @ \cup {p}]

IsMember(f, p) == p \in f.paths

IsAncestor(f, p) == \E m \in f.paths : IsPrefix(p, m)

IsOffspring(f, p) == \E m \in f.paths : IsPrefix(m, p)

\* path strings a request may name; the last resolves to no attribute
PathStrings ==
    { <<"name">>, <<"name", "familyName">>, <<"emails", "value">>, <<"bogus">> }

CompilePath(s) ==
    IF s \in AttrIds THEN [err |-> "nil", path |-> s]
    ELSE [err |-> "invalidPath", path |-> <<>>]

MustPath(id) == id

SeqsUpTo(S, n) == UNION { [1..k -> S] : k \in 0..n }

OptionSets ==
    [included : SeqsUpTo(PathStrings, MaxPaths),
     excluded : SeqsUpTo(PathStrings, MaxPaths)]

(***************************************************************************)
(* The serializer                                                          *)
(***************************************************************************)
containerObject == "object"
containerArray == "array"

NewSerializer ==
    [includeFamily |-> NilFamily, excludeFamily |-> NilFamily,
     stack |-> <<>>, buf |-> <<>>]

NoResult == [returned |-> FALSE, bytesNil |-> TRUE, bytes |-> <<>>, err |-> "nil"]

\* the loops of Serialize that compile the paths into a family
RECURSIVE CompileAll(_, _)
CompileAll(paths, f) ==
    IF paths = <<>> THEN [err |-> "nil", family |-> f]
    ELSE LET c == CompilePath(Head(paths))
         IN  IF c.err # "nil" THEN [err |-> c.err, family |-> f]
             ELSE CompileAll(Tail(paths), FamilyAdd(f, c.path))

\* the test both arms of ShouldVisit apply to an include family
InFamily_NoAncestor(f, p) == IsMember(f, p) \/ IsOffspring(f, p)

InFamily(f, p) == IsMember(f, p) \/ IsAncestor(f, p) \/ IsOffspring(f, p)

DefaultPolicy_IgnoresAssigned(s, n) ==
    LET p == MustPath(AttrOf(n))
    IN  IF s.includeFamily.isNil /\ s.excludeFamily.isNil THEN TRUE
        ELSE IF ~s.includeFamily.isNil THEN InFamily(s.includeFamily, p)
        ELSE IsMember(s.excludeFamily, p) \/ IsOffspring(s.excludeFamily, p)

\* case core.ReturnedDefault
DefaultPolicy(s, n) ==
    IF s.includeFamily.isNil /\ s.excludeFamily.isNil
    THEN ~IsUnassigned(n)
    ELSE LET p == MustPath(AttrOf(n))
         IN  IF ~s.includeFamily.isNil
             THEN InFamily(s.includeFamily, p)
             ELSE IsMember(s.excludeFamily, p) \/ IsOffspring(s.excludeFamily, p)

RequestPolicy_AnyProjection(s, n) ==
    LET p == CompilePath(AttrOf(n)).path
    IN  IF ~s.includeFamily.isNil THEN InFamily(s.includeFamily, p)
        ELSE IF ~s.excludeFamily.isNil THEN ~IsMember(s.excludeFamily, p)
        ELSE FALSE

RequestPolicy_Always(s, n) == ~s.includeFamily.isNil

\* case core.ReturnedRequest
RequestPolicy(s, n) ==
    IF ~s.includeFamily.isNil
    THEN LET p == CompilePath(AttrOf(n)).path
         IN  InFamily(s.includeFamily, p)
    ELSE FALSE

ReturnedPolicy_AlwaysAsDefault(s, n) ==
    CASE schema[AttrOf(n)].returned = "always" -> DefaultPolicy(s, n)
      [] schema[AttrOf(n)].returned = "never" -> FALSE
      [] schema[AttrOf(n)].returned = "default" -> DefaultPolicy(s, n)
      [] schema[AttrOf(n)].returned = "request" -> RequestPolicy(s, n)

\* switch attr.Returned()
ReturnedPolicy(s, n) ==
    CASE schema[AttrOf(n)].returned = "always" -> TRUE
      [] schema[AttrOf(n)].returned = "never" -> FALSE
      [] schema[AttrOf(n)].returned = "default" -> DefaultPolicy(s, n)
      [] schema[AttrOf(n)].returned = "request" -> RequestPolicy(s, n)

ShouldVisit_NoWriteOnlyCheck(s, n) == ReturnedPolicy(s, n)

ShouldVisit(s, n) ==
    IF schema[AttrOf(n)].mutability = "writeOnly" THEN FALSE
    ELSE ReturnedPolicy(s, n)

Tok(t, a) == [t |-> t, a |-> a]

Write(s, tok) == [s EXCEPT !.buf = Append(@, tok)]

push(s, c) == [s EXCEPT !.stack = Append(@, [container |-> c, index |-> 0])]

pop(s) == [s EXCEPT !.stack = SubSeq(@, 1, Len(@) - 1)]

current(s) == s.stack[Len(s.stack)]

IncIndex(s) == [s EXCEPT !.stack[Len(s.stack)].index = @ + 1]

appendPropertyName(s, attr) == Write(s, Tok("name", Last(attr)))

appendNull(s) == Write(s, Tok("null", ""))

appendString(s, n) == Write(s, Tok("string", Last(n)))

\* math.IsInf(value, 0) || math.IsNaN(value): appendFloat panics
appendFloatPanics(value) == value \in {"NaN", "+Inf", "-Inf"}

appendFloat(s, value) == Write(s, Tok("number", value))

\* Visit, up to the switch on the type of an assigned leaf
VisitHead(s, n) ==
    LET s1 == IF current(s).index > 0 THEN Write(s, Tok(",", "")) ELSE s
    IN  IF current(s1).container # containerArray
        THEN appendPropertyName(s1, AttrOf(n)) ELSE s1

\* whether Visit(n) ends in the panic of appendFloat
VisitPanics(n) ==
    /\ ~IsContainer(n) /\ ~IsUnassigned(n)
    /\ schema[AttrOf(n)].type = "decimal"
    /\ appendFloatPanics(res.float)

\* Visit when it returns
Visit(s, n) ==
    LET s2 == VisitHead(s, n)
    IN  IF IsContainer(n) THEN s2
        ELSE IF IsUnassigned(n) THEN appendNull(s2)
        ELSE IF schema[AttrOf(n)].type = "decimal"
        THEN IncIndex(appendFloat(s2, res.float))
        ELSE IncIndex(appendString(s2, n))

BeginChildren(s, n) ==
    IF MultiValuedAttr(AttrOf(n)) /\ ~IsElement(n)
    THEN push(Write(s, Tok("[", "")), containerArray)
    ELSE push(Write(s, Tok("{", "")), containerObject)

\* the closing token is '}' whatever the container is
EndChildren_AlwaysBrace(s, n) ==
    LET s2 == pop(Write(s, Tok("}", "")))
    IN  IF Len(s2.stack) > 0 THEN IncIndex(s2) ELSE s2

EndChildren(s, n) ==
    LET s1 == IF MultiValuedAttr(AttrOf(n)) /\ ~IsElement(n)
              THEN Write(s, Tok("]", "")) ELSE Write(s, Tok("}", ""))
        s2 == pop(s1)
    IN  IF Len(s2.stack) > 0 THEN IncIndex(s2) ELSE s2

(***************************************************************************)
(* The replace service.  One resource ID is followed; a version names the  *)
(* content stored or sent: 0 is the resource stored at the start, c the     *)
(* payload of call c once a filter has given it a version of its own.       *)
(***************************************************************************)
Callers == 1..MaxCalls

NoVersion == -1

Free == 0

\* a call that has not run yet
NewCall ==
    [pc |-> "get", ref |-> NoVersion, payload |-> NoVersion, fresh |-> TRUE,
     trace |-> <<>>, err |-> "nil"]

IdleService ==
    [db |-> 0, lock |-> Free, event |-> FALSE, calls |-> [c \in Callers |-> NewCall]]

Called(k, name) == [k EXCEPT !.trace = Append(@, name)]

\* the response of a handler invocation before anything is written to it
NewResponse ==
    [status |-> 0, statusWrites |-> 0, body |-> "none", location |-> FALSE,
     etag |-> NoVersion, contentType |-> FALSE, error |-> "nil"]

IdleHandlers ==
    [c \in Callers |-> [pc |-> "start", stage |-> "none", resp |-> NewResponse]]

\* WriteError: the status of the error's kind and the error as the body
WriteError(r, kind) ==
    [r EXCEPT !.status = CASE kind \in {"invalidSyntax", "invalidValue"} -> 400
                           [] kind = "notFound" -> 404
                           [] kind = "preConditionFailed" -> 412
                           [] OTHER -> 500,
              !.statusWrites = @ + 1, !.body = "error", !.error = kind]

\* Location and ETag are written before the resource is serialized
Respond_HeadersFirst(r, old, new, serErr) ==
    LET h == [r EXCEPT !.location = TRUE, !.etag = new]
    IN  IF new = old THEN [h EXCEPT !.status = 204, !.statusWrites = @ + 1]
        ELSE IF serErr # "nil" THEN WriteError(h, serErr)
        ELSE [h EXCEPT !.body = "resource", !.contentType = TRUE,
                       !.status = 200, !.statusWrites = @ + 1]

\* Handle after ReplaceResource returned rr: old and new are rr.OldVersion
\* and rr.NewVersion, serErr the error json.Serialize returns
Respond(r, old, new, serErr) ==
    IF new = old
    THEN [r EXCEPT !.location = TRUE, !.etag = new,
                   !.status = 204, !.statusWrites = @ + 1]
    ELSE IF serErr # "nil" THEN WriteError(r, serErr)
    ELSE [r EXCEPT !.body = "resource", !.location = TRUE, !.etag = new,
                   !.contentType = TRUE, !.status = 200, !.statusWrites = @ + 1]

Return_WithoutUnlock(k, err) == [k EXCEPT !.pc = "done", !.err = err]

\* a return statement once `defer s.Lock.Unlock(ctx, ref)` is registered:
\* Unlock runs before the call returns
Return(k, err) == [k EXCEPT !.pc = "unlock", !.err = err]

(***************************************************************************)
(* Serialize and the traversal Resource.Visit drives                       *)
(***************************************************************************)
VisitItem(n) == [op |-> "visit", node |-> n]

EndItem(n) == [op |-> "end", node |-> n]

\* what the traversal of container n adds in front of the agenda
Descend(n) ==
    [i \in 1..Len(Children(n)) |-> VisitItem(Children(n)[i])] \o <<EndItem(n)>>

BothGiven_Never(o) == FALSE

\* len(options.included) > 0 && len(options.excluded) > 0
BothGiven(o) == Len(o.included) > 0 /\ Len(o.excluded) > 0

InitSer ==
    /\ schema \in Schemas
    /\ res \in Resources
    /\ options \in OptionSets
    /\ pc = "start"
    /\ ser = NewSerializer
    /\ todo = <<>>
    /\ asked = {}
    /\ emitted = <<>>
    /\ result = NoResult
    /\ mvAttr = [type |-> "string", caseExact |-> TRUE]
    /\ mv = [parent |-> "root", elements |-> <<>>, touched |-> FALSE,
             subscribers |-> <<>>]
    /\ mvLast = [op |-> "none", kind |-> "nil", nonNil |-> 0, wasEmpty |-> TRUE,
                 err |-> "nil", notified |-> <<>>]
    /\ svc = IdleService
    /\ hnd = IdleHandlers

Fail(kind) ==
    /\ pc' = "done"
    /\ result' = [returned |-> TRUE, bytesNil |-> TRUE, bytes |-> <<>>, err |-> kind]
    /\ UNCHANGED <<schema, res, options, ser, todo, asked, emitted>>
    /\ UNCHANGED <<mvVars, svc, hnd>>

\* Serialize, up to the call of resource.Visit: both lists given
SerializeBoth ==
    /\ pc = "start"
    /\ BothGiven(options)
    /\ Fail("invalidRequest")

\* Serialize, up to the call of resource.Visit: a path does not compile
SerializeBadPath ==
    /\ pc = "start"
    /\ ~BothGiven(options)
    /\ \/ /\ Len(options.included) > 0
          /\ CompileAll(options.included, NewPathFamily).err # "nil"
          /\ Fail(CompileAll(options.included, NewPathFamily).err)
       \/ /\ Len(options.included) = 0 /\ Len(options.excluded) > 0
          /\ CompileAll(options.excluded, NewPathFamily).err # "nil"
          /\ Fail(CompileAll(options.excluded, NewPathFamily).err)

\* Serialize, up to the call of resource.Visit: the serializer is set up
SerializeStart ==
    /\ pc = "start"
    /\ ~BothGiven(options)
    /\ LET inc == CompileAll(options.included, NewPathFamily)
           exc == CompileAll(options.excluded, NewPathFamily)
       IN  /\ Len(options.included) > 0 => inc.err = "nil"
           /\ (Len(options.included) = 0 /\ Len(options.excluded) > 0) => exc.err = "nil"
           /\ ser' = IF Len(options.included) > 0
                     THEN [NewSerializer EXCEPT !.includeFamily = inc.family]
                     ELSE IF Len(options.excluded) > 0
                     THEN [NewSerializer EXCEPT !.excludeFamily = exc.family]
                     ELSE NewSerializer
    /\ pc' = "visit"
    /\ todo' = <<[op |-> "root", node |-> Root]>>
    /\ UNCHANGED <<schema, res, options, asked, emitted, result>>
    /\ UNCHANGED <<mvVars, svc, hnd>>

\* Resource.Visit: the root complex property is opened
VisitRoot ==
    /\ pc = "visit" /\ todo # <<>> /\ Head(todo).op = "root"
    /\ ser' = BeginChildren(ser, Root)
    /\ todo' = Descend(Root) \o Tail(todo)
    /\ UNCHANGED <<schema, res, options, pc, asked, emitted, result>>
    /\ UNCHANGED <<mvVars, svc, hnd>>

\* the traversal reaches a property ShouldVisit turns down: its subtree is skipped
VisitSkip ==
    /\ pc = "visit" /\ todo # <<>> /\ Head(todo).op = "visit"
    /\ LET n == Head(todo).node
       IN  /\ ~ShouldVisit(ser, n)
           /\ asked' = asked \cup {[node |-> n, result |-> FALSE]}
    /\ todo' = Tail(todo)
    /\ UNCHANGED <<schema, res, options, pc, ser, emitted, result>>
    /\ UNCHANGED <<mvVars, svc, hnd>>

\* the traversal reaches a property ShouldVisit accepts: Visit, then descend
VisitProperty ==
    /\ pc = "visit" /\ todo # <<>> /\ Head(todo).op = "visit"
    /\ LET n == Head(todo).node
       IN  /\ ShouldVisit(ser, n)
           /\ ~VisitPanics(n)
           /\ asked' = asked \cup {[node |-> n, result |-> TRUE]}
           /\ emitted' = Append(emitted, n)
           /\ IF IsContainer(n)
              THEN /\ ser' = BeginChildren(Visit(ser, n), n)
                   /\ todo' = Descend(n) \o Tail(todo)
              ELSE /\ ser' = Visit(ser, n)
                   /\ todo' = Tail(todo)
    /\ UNCHANGED <<schema, res, options, pc, result>>
    /\ UNCHANGED <<mvVars, svc, hnd>>

\* Visit panics in appendFloat: nothing on the way up to the caller of
\* Serialize recovers, so Serialize does not return
VisitPanic ==
    /\ pc = "visit" /\ todo # <<>> /\ Head(todo).op = "visit"
    /\ LET n == Head(todo).node
       IN  /\ ShouldVisit(ser, n)
           /\ VisitPanics(n)
           /\ asked' = asked \cup {[node |-> n, result |-> TRUE]}
           /\ emitted' = Append(emitted, n)
           /\ ser' = VisitHead(ser, n)
    /\ pc' = "panicked"
    /\ UNCHANGED <<schema, res, options, todo, result>>
    /\ UNCHANGED <<mvVars, svc, hnd>>

\* the children of a container are done
VisitEnd ==
    /\ pc = "visit" /\ todo # <<>> /\ Head(todo).op = "end"
    /\ ser' = EndChildren(ser, Head(todo).node)
    /\ todo' = Tail(todo)
    /\ UNCHANGED <<schema, res, options, pc, asked, emitted, result>>
    /\ UNCHANGED <<mvVars, svc, hnd>>

\* Serialize after resource.Visit returned
SerializeReturn ==
    /\ pc = "visit" /\ todo = <<>>
    /\ pc' = "done"
    /\ result' = [returned |-> TRUE, bytesNil |-> FALSE, bytes |-> ser.buf, err |-> "nil"]
    /\ UNCHANGED <<schema, res, options, ser, todo, asked, emitted>>
    /\ UNCHANGED <<mvVars, svc, hnd>>

NextSer ==
    \/ SerializeBoth
    \/ SerializeBadPath
    \/ SerializeStart
    \/ VisitRoot
    \/ VisitSkip
    \/ VisitProperty
    \/ VisitEnd
    \/ SerializeReturn

SpecSer == InitSer /\ [][NextSer]_vars

\* Serialize of a resource with a decimal attribute
InitDecimal ==
    /\ schema \in DecimalSchemas
    /\ res \in DecimalResources
    /\ options \in OptionSets
    /\ pc = "start"
    /\ ser = NewSerializer
    /\ todo = <<>>
    /\ asked = {}
    /\ emitted = <<>>
    /\ result = NoResult
    /\ mvAttr = [type |-> "string", caseExact |-> TRUE]
    /\ mv = [parent |-> "root", elements |-> <<>>, touched |-> FALSE,
             subscribers |-> <<>>]
    /\ mvLast = [op |-> "none", kind |-> "nil", nonNil |-> 0, wasEmpty |-> TRUE,
                 err |-> "nil", notified |-> <<>>]
    /\ svc = IdleService
    /\ hnd = IdleHandlers

NextDecimal ==
    \/ NextSer
    \/ VisitPanic

SpecDecimal == InitDecimal /\ [][NextDecimal]_vars

(***************************************************************************)
(* Unsigned 64-bit integers, as 8 bytes with the least significant first   *)
(* (binary.LittleEndian.PutUint64), and the FNV-1a hash over them.         *)
(***************************************************************************)
Zero64 == [i \in 1..8 |-> 0]

\* a > b as uint64
RECURSIVE GreaterFrom(_, _, _)
GreaterFrom(a, b, i) ==
    IF i = 0 THEN FALSE
    ELSE IF a[i] # b[i] THEN a[i] > b[i]
    ELSE GreaterFrom(a, b, i - 1)

Greater64(a, b) == GreaterFrom(a, b, 8)

\* bitwise exclusive or of two n-bit numbers
RECURSIVE XorBits(_, _, _)
XorBits(a, b, n) ==
    IF n = 0 THEN 0
    ELSE (((a % 2) + (b % 2)) % 2) + 2 * XorBits(a \div 2, b \div 2, n - 1)

\* FNV-1a 64-bit offset basis 0xcbf29ce484222325
offset64 == <<37, 35, 34, 132, 228, 156, 242, 203>>

\* bytes i..8 of h * 0x100000001b3 modulo 2^64, c being the carry into byte i
RECURSIVE MulPrime(_, _, _)
MulPrime(h, i, c) ==
    IF i > 8 THEN <<>>
    ELSE LET t == h[i] * 435 + (IF i > 5 THEN h[i - 5] ELSE 0) + c
         IN  <<t % 256>> \o MulPrime(h, i + 1, t \div 256)

FnvWriteByte(h, b) == MulPrime([h EXCEPT ![1] = XorBits(@, b, 8)], 1, 0)

\* h.Write(bytes), h being the 8 bytes of the running hash
RECURSIVE FnvWrite(_, _)
FnvWrite(h, bytes) ==
    IF Len(h) = 8 /\ bytes # <<>>
    THEN FnvWrite(FnvWriteByte(h, Head(bytes)), Tail(bytes))
    ELSE h

(***************************************************************************)
(* Values given to Add and Replace, and the element properties             *)
(***************************************************************************)
NilItem == [kind |-> "nil", bytes |-> <<>>]

StrItem(bytes) == [kind |-> "string", bytes |-> bytes]

\* an int64 below 256, by its 8 bytes
IntItem(n) == [kind |-> "integer", bytes |-> [i \in 1..8 |-> IF i = 1 THEN n ELSE 0]]

\* "a", "b", "B"
StringValues == { <<97>>, <<98>>, <<66>> }

IntValues == {7}

Items ==
    {NilItem} \cup {StrItem(b) : b \in StringValues} \cup {IntItem(n) : n \in IntValues}

NilValue == [kind |-> "nil", items |-> <<>>]

SingleValue(i) == [kind |-> "single", items |-> <<i>>]

ListValue(l) == [kind |-> "list", items |-> l]

Values ==
    {NilValue} \cup {SingleValue(i) : i \in Items \ {NilItem}}
        \cup {ListValue(l) : l \in SeqsUpTo(Items, MaxAdd)}

MultiAttrs ==
    { [type |-> "string", caseExact |-> TRUE],
      [type |-> "string", caseExact |-> FALSE],
      [type |-> "integer", caseExact |-> FALSE] }

\* the names of the objects a parent pointer can hold: the property p the
\* model follows, the copy c that Clone makes of it, the containers a
\* property can be placed under, and no container
Self == "p"

TheClone == "c"

NilContainer == "nil"

Containers == {"root", "other"}

\* NewString / NewInteger with p as the parent: a fresh unassigned element
NewElement == [assigned |-> FALSE, raw |-> <<>>, parent |-> Self]

\* Replace of a leaf: the value must have the attribute's type
ElemReplace(e, v) ==
    IF v.kind = mvAttr.type
    THEN [err |-> "nil", prop |-> [e EXCEPT !.assigned = TRUE, !.raw = v.bytes]]
    ELSE [err |-> "invalidValue", prop |-> e]

ToLower(bytes) ==
    [i \in 1..Len(bytes) |->
        IF bytes[i] >= 65 /\ bytes[i] <= 90 THEN bytes[i] + 32 ELSE bytes[i]]

ElemIsUnassigned(e) == ~e.assigned

\* Clone of a leaf: a copy of the value under the parent it is given
ElemClone(e, parent) == [e EXCEPT !.parent = parent]

\* FNV-1a of the bytes of each raw value an element can hold
LeafHash == [b \in {i.bytes : i \in Items} |-> FnvWrite(offset64, b)]

ElemHash(e) ==
    IF ~e.assigned THEN Zero64
    ELSE IF mvAttr.type = "string" /\ ~mvAttr.caseExact
    THEN LeafHash[ToLower(e.raw)]
    ELSE LeafHash[e.raw]

ElemMatches(e, another) ==
    IF ~e.assigned THEN ~another.assigned
    ELSE ElemHash(e) = ElemHash(another)

(***************************************************************************)
(* The multi-valued property                                               *)
(***************************************************************************)
NewMulti ==
    [parent |-> "root", elements |-> <<>>, touched |-> FALSE, subscribers |-> <<>>]

IsUnassignedMulti(p) == Len(p.elements) = 0

CountChildren(p) == Len(p.elements)

\* hashes[i-1], hashes[i] = hashes[i], hashes[i-1]
Swap(hashes, i) ==
    [hashes EXCEPT ![i - 1] = hashes[i], ![i] = hashes[i - 1]]

\* for i := len(hashes) - 1; i > 0; i-- (i counts from 1 here)
RECURSIVE SiftDown(_, _)
SiftDown(hashes, i) ==
    IF i <= 1 THEN hashes
    ELSE SiftDown(IF Greater64(hashes[i - 1], hashes[i])
                  THEN Swap(hashes, i) ELSE hashes, i - 1)

InsertHash_Unsorted(hashes, h) == Append(hashes, h)

\* the body of the ForEachChild callback of Hash, for an assigned child
InsertHash(hashes, h) == SiftDown(Append(hashes, h), Len(hashes) + 1)

RECURSIVE CollectHashes(_, _)
CollectHashes(elems, hashes) ==
    IF elems = <<>> THEN hashes
    ELSE IF ElemIsUnassigned(Head(elems))
    THEN CollectHashes(Tail(elems), hashes)
    ELSE CollectHashes(Tail(elems), InsertHash(hashes, ElemHash(Head(elems))))

RECURSIVE MixHashes(_, _)
MixHashes(h, hashes) ==
    IF Len(h) = 8 /\ hashes # <<>>
    THEN MixHashes(FnvWrite(h, Head(hashes)), Tail(hashes))
    ELSE h

Hash(p) ==
    IF Len(p.elements) = 0 THEN Zero64
    ELSE MixHashes(offset64, CollectHashes(p.elements, <<>>))

newElementProperty(singleValue) ==
    IF singleValue.kind # "nil"
    THEN ElemReplace(NewElement, singleValue)
    ELSE [err |-> "nil", prop |-> NewElement]

\* case []interface{}: the candidates of a sequence, nil entries skipped
RECURSIVE BuildToAdd(_, _)
BuildToAdd(vals, toAdd) ==
    IF vals = <<>> THEN [err |-> "nil", toAdd |-> toAdd]
    ELSE IF Head(vals).kind = "nil" THEN BuildToAdd(Tail(vals), toAdd)
    ELSE LET r == newElementProperty(Head(vals))
         IN  IF r.err # "nil" THEN [err |-> r.err, toAdd |-> toAdd]
             ELSE BuildToAdd(Tail(vals), Append(toAdd, r.prop))

AnyMatch(elems, c) == \E i \in 1..Len(elems) : ElemMatches(elems[i], c)

RECURSIVE AppendAll(_, _, _)
AppendAll(p, toAdd, existing) ==
    IF toAdd = <<>> THEN p
    ELSE AppendAll(IF ~AnyMatch(existing, Head(toAdd))
                   THEN [p EXCEPT !.elements = Append(@, Head(toAdd)),
                                  !.touched = TRUE]
                   ELSE p, Tail(toAdd), existing)

AddEach_AgainstOldOnly(p, toAdd) == AppendAll(p, toAdd, p.elements)

\* add each candidate only if it does not match an existing element
RECURSIVE AddEach(_, _)
AddEach(p, toAdd) ==
    IF toAdd = <<>> THEN p
    ELSE AddEach(IF ~AnyMatch(p.elements, Head(toAdd))
                 THEN [p EXCEPT !.elements = Append(@, Head(toAdd)),
                                !.touched = TRUE]
                 ELSE p, Tail(toAdd))

\* the candidates built before a failing value are added all the same
Add_PartialOnError(p, value) ==
    IF value.kind = "nil" THEN [p |-> p, err |-> "nil"]
    ELSE LET b == IF value.kind = "list"
                  THEN BuildToAdd(value.items, <<>>)
                  ELSE BuildToAdd(<<value.items[1]>>, <<>>)
         IN  [p |-> AddEach(p, b.toAdd), err |-> b.err]

Add(p, value) ==
    IF value.kind = "nil" THEN [p |-> p, err |-> "nil"]
    ELSE LET b == IF value.kind = "list"
                  THEN BuildToAdd(value.items, <<>>)
                  ELSE BuildToAdd(<<value.items[1]>>, <<>>)
         IN  IF b.err # "nil" THEN [p |-> p, err |-> b.err]
             ELSE IF Len(b.toAdd) = 0 THEN [p |-> p, err |-> "nil"]
             ELSE [p |-> AddEach(p, b.toAdd), err |-> "nil"]

Delete(p) ==
    [p |-> [p EXCEPT !.elements = <<>>, !.touched = TRUE], err |-> "nil"]

Replace(p, value) ==
    LET d == Delete(p)
    IN  IF d.err # "nil" THEN d ELSE Add(d.p, value)

NewChild(p) ==
    LET c == newElementProperty(NilItem)
    IN  IF c.err # "nil" THEN [p |-> p, index |-> -1]
        ELSE [p |-> [p EXCEPT !.elements = Append(@, c.prop)],
              index |-> Len(p.elements)]

\* c takes parent, attr, touched and subscribers; each element is cloned with
\* the same parent argument
Clone(p, parent) ==
    [p EXCEPT !.parent = parent,
              !.elements = [i \in 1..Len(p.elements) |->
                               ElemClone(p.elements[i], parent)]]

Parent(p) == p.parent

\* errors.Internal("incompatible operation")
errIncompatibleOp == "internal"

StartsWith(p, value) == [ret |-> FALSE, err |-> errIncompatibleOp]

EndsWith(p, value) == [ret |-> FALSE, err |-> errIncompatibleOp]

Contains(p, value) == [ret |-> FALSE, err |-> errIncompatibleOp]

GreaterThan(p, value) == [ret |-> FALSE, err |-> errIncompatibleOp]

LessThan(p, value) == [ret |-> FALSE, err |-> errIncompatibleOp]

\* the loop stops at the unassigned elements that end the sequence
RECURSIVE CompactFrom_OnlyTrailing(_, _)
CompactFrom_OnlyTrailing(elems, i) ==
    IF i >= 0 /\ ElemIsUnassigned(elems[i + 1])
    THEN CompactFrom_OnlyTrailing(SubSeq(elems, 1, i), i - 1)
    ELSE elems

\* for i = len(p.elements) - 1; i >= 0; i-- (i counts from 0 as in the code)
RECURSIVE CompactFrom(_, _)
CompactFrom(elems, i) ==
    IF i < 0 THEN elems
    ELSE IF ElemIsUnassigned(elems[i + 1])
    THEN CompactFrom(IF i = Len(elems) - 1 THEN SubSeq(elems, 1, i)
                     ELSE IF i = 0 THEN SubSeq(elems, i + 2, Len(elems))
                     ELSE SubSeq(elems, 1, i) \o SubSeq(elems, i + 2, Len(elems)),
                     i - 1)
    ELSE CompactFrom(elems, i - 1)

Compact(p) ==
    IF Len(p.elements) = 0 THEN p
    ELSE [p EXCEPT !.elements = CompactFrom(@, Len(@) - 1)]

\* the subscribers that can be registered, and the events they are sent
SubscriberIds == {"s1", "s2"}

ElementId == "element"

Events == [source : {Self, ElementId}, kind : {"assigned"}, willPropagate : BOOLEAN]

Subscribe(p, subscriber) == [p EXCEPT !.subscribers = Append(@, subscriber)]

RECURSIVE NotifyEach_ContinuesAfterError(_, _, _, _, _)
NotifyEach_ContinuesAfterError(subs, e, failing, log, err) ==
    IF subs = <<>> THEN [log |-> log, err |-> err]
    ELSE NotifyEach_ContinuesAfterError(Tail(subs), e, failing,
             Append(log, [to |-> Head(subs), event |-> e]),
             IF err = "nil" /\ Head(subs) \in failing THEN Head(subs) ELSE err)

\* for _, subscriber := range p.subscribers: Notify(p, e), the first error is
\* returned; failing holds the subscribers whose Notify returns an error, and
\* an error is named after the one that returned it
RECURSIVE NotifyEach(_, _, _, _, _)
NotifyEach(subs, e, failing, log, err) ==
    IF subs = <<>> THEN [log |-> log, err |-> err]
    ELSE LET l == Append(log, [to |-> Head(subs), event |-> e])
         IN  IF Head(subs) \in failing THEN [log |-> l, err |-> Head(subs)]
             ELSE NotifyEach(Tail(subs), e, failing, l, err)

\* log is the sequence of Notify / parent.Propagate calls made, in order
Propagate(p, e, failing, parentFails) ==
    LET r == NotifyEach(p.subscribers, e, failing, <<>>, "nil")
    IN  IF r.err # "nil" THEN r
        ELSE IF p.parent # NilContainer /\ e.willPropagate
        THEN [log |-> Append(r.log, [to |-> p.parent, event |-> e]),
              err |-> IF parentFails THEN p.parent ELSE "nil"]
        ELSE r

\* the Notify calls that reach the subscribers of p while candidates are
\* built: each leaf Replace that succeeds emits an event, which walks from the
\* new element to its parent p; building stops at the first value that fails
RECURSIVE LeafEvents(_, _)
LeafEvents(subs, items) ==
    IF items = <<>> THEN <<>>
    ELSE IF Head(items).kind = "nil" THEN LeafEvents(subs, Tail(items))
    ELSE IF Head(items).kind # mvAttr.type THEN <<>>
    ELSE [i \in 1..Len(subs) |->
             [to |-> subs[i],
              event |-> [source |-> ElementId, kind |-> "assigned",
                         willPropagate |-> TRUE]]]
         \o LeafEvents(subs, Tail(items))

\* what is remembered of a call: the operation, the kind of value given, how
\* many non-nil values it held, whether the property was empty, the error,
\* and the Notify calls made on the subscribers of the property meanwhile
Call(op, v, p, err) ==
    [op |-> op, kind |-> v.kind,
     nonNil |-> Len(SelectSeq(v.items, LAMBDA i : i.kind # "nil")),
     wasEmpty |-> Len(p.elements) = 0, err |-> err,
     notified |-> LeafEvents(p.subscribers, v.items)]

InitMulti ==
    /\ schema = BaseSchema
    /\ res = [assigned |-> {}, nElems |-> 0, float |-> "finite"]
    /\ options = [included |-> <<>>, excluded |-> <<>>]
    /\ pc = "done"
    /\ ser = NewSerializer
    /\ todo = <<>>
    /\ asked = {}
    /\ emitted = <<>>
    /\ result = NoResult
    /\ mvAttr \in MultiAttrs
    /\ mv = NewMulti
    /\ mvLast = Call("none", NilValue, NewMulti, "nil")
    /\ svc = IdleService
    /\ hnd = IdleHandlers

AddStep ==
    /\ \E v \in Values :
          LET r == Add(mv, v)
          IN  /\ Len(r.p.elements) <= MaxChildren
              /\ mv' = r.p
              /\ mvLast' = Call("Add", v, mv, r.err)
    /\ UNCHANGED <<mvAttr, serVars, svc, hnd>>

ReplaceStep ==
    /\ \E v \in Values :
          LET r == Replace(mv, v)
          IN  /\ Len(r.p.elements) <= MaxChildren
              /\ mv' = r.p
              /\ mvLast' = Call("Replace", v, mv, r.err)
    /\ UNCHANGED <<mvAttr, serVars, svc, hnd>>

DeleteStep ==
    /\ mv' = Delete(mv).p
    /\ mvLast' = Call("Delete", NilValue, mv, Delete(mv).err)
    /\ UNCHANGED <<mvAttr, serVars, svc, hnd>>

NewChildStep ==
    /\ Len(mv.elements) < MaxChildren
    /\ mv' = NewChild(mv).p
    /\ mvLast' = Call("NewChild", NilValue, mv, "nil")
    /\ UNCHANGED <<mvAttr, serVars, svc, hnd>>

CloneStep ==
    /\ \E parent \in Containers \cup {NilContainer} :
          mvLast' = [op |-> "Clone", given |-> parent, c |-> Clone(mv, parent)]
    /\ UNCHANGED <<mv, mvAttr, serVars, svc, hnd>>

\* pattern remembers which elements were assigned when Compact was called
CompactStep ==
    /\ mv' = Compact(mv)
    /\ mvLast' = [op |-> "Compact",
                  pattern |-> [i \in 1..Len(mv.elements) |-> mv.elements[i].assigned]]
    /\ UNCHANGED <<mvAttr, serVars, svc, hnd>>

Predicates == {"StartsWith", "EndsWith", "Contains", "GreaterThan", "LessThan"}

PredicateStep ==
    /\ \E v \in Items \ {NilItem}, op \in Predicates :
          LET r == CASE op = "StartsWith" -> StartsWith(mv, v)
                     [] op = "EndsWith" -> EndsWith(mv, v)
                     [] op = "Contains" -> Contains(mv, v)
                     [] op = "GreaterThan" -> GreaterThan(mv, v)
                     [] op = "LessThan" -> LessThan(mv, v)
          IN  mvLast' = [op |-> op, ret |-> r.ret, err |-> r.err]
    /\ UNCHANGED <<mv, mvAttr, serVars, svc, hnd>>

\* a property that is only ever changed through Add, Replace and Delete
NextMutate ==
    \/ AddStep
    \/ ReplaceStep
    \/ DeleteStep

SpecMutate == InitMulti /\ [][NextMutate]_vars

\* a property that parsers also grow through NewChild
NextMulti ==
    \/ AddStep
    \/ ReplaceStep
    \/ DeleteStep
    \/ NewChildStep

SpecMulti == InitMulti /\ [][NextMulti]_vars

\* a property with or without a parent, for the event chain
InitEvents ==
    /\ schema = BaseSchema
    /\ res = [assigned |-> {}, nElems |-> 0, float |-> "finite"]
    /\ options = [included |-> <<>>, excluded |-> <<>>]
    /\ pc = "done"
    /\ ser = NewSerializer
    /\ todo = <<>>
    /\ asked = {}
    /\ emitted = <<>>
    /\ result = NoResult
    /\ mvAttr = [type |-> "string", caseExact |-> TRUE]
    /\ mv \in {NewMulti, [NewMulti EXCEPT !.parent = NilContainer]}
    /\ mvLast = Call("none", NilValue, NewMulti, "nil")
    /\ svc = IdleService
    /\ hnd = IdleHandlers

SubscribeStep ==
    /\ Len(mv.subscribers) < MaxSubs
    /\ \E s \in SubscriberIds : mv' = Subscribe(mv, s)
    /\ mvLast' = [op |-> "Subscribe"]
    /\ UNCHANGED <<mvAttr, serVars, svc, hnd>>

PropagateStep ==
    /\ \E e \in Events, failing \in SUBSET SubscriberIds, parentFails \in BOOLEAN :
          LET r == Propagate(mv, e, failing, parentFails)
          IN  mvLast' = [op |-> "Propagate", event |-> e, failing |-> failing,
                         parentFails |-> parentFails, log |-> r.log, err |-> r.err]
    /\ UNCHANGED <<mv, mvAttr, serVars, svc, hnd>>

\* events are propagated on a property that has subscribers
NextEvents ==
    \/ SubscribeStep
    \/ PropagateStep

SpecEvents == InitEvents /\ [][NextEvents]_vars

\* a property is mutated while subscribers listen
NextNotify ==
    \/ SubscribeStep
    \/ AddStep
    \/ ReplaceStep
    \/ DeleteStep

SpecNotify == InitEvents /\ [][NextNotify]_vars

\* a property that is filled, grown by parsers and copied
NextContainer ==
    \/ AddStep
    \/ NewChildStep
    \/ CloneStep
    \/ CompactStep
    \/ PredicateStep

SpecContainer == InitMulti /\ [][NextContainer]_vars

(***************************************************************************)
(* ReplaceResource, one action per call it makes on a collaborator         *)
(***************************************************************************)
InitService ==
    /\ schema = BaseSchema
    /\ res = [assigned |-> {}, nElems |-> 0, float |-> "finite"]
    /\ options = [included |-> <<>>, excluded |-> <<>>]
    /\ pc = "done"
    /\ ser = NewSerializer
    /\ todo = <<>>
    /\ asked = {}
    /\ emitted = <<>>
    /\ result = NoResult
    /\ mvAttr = [type |-> "string", caseExact |-> TRUE]
    /\ mv = NewMulti
    /\ mvLast = Call("none", NilValue, NewMulti, "nil")
    /\ svc \in {[IdleService EXCEPT !.event = e] : e \in BOOLEAN}
    /\ hnd = IdleHandlers

\* s.Database.Get and request.MatchCriteria(ref); expect is the version the
\* criteria ask for, NoVersion when MatchCriteria is nil
ServiceGet ==
    /\ \E c \in Callers, failed \in BOOLEAN, expect \in {NoVersion} \cup (0..MaxCalls) :
          LET k == Called(svc.calls[c], "Get")
          IN  /\ svc.calls[c].pc = "get"
              /\ svc' = [svc EXCEPT !.calls[c] =
                    IF failed THEN [k EXCEPT !.pc = "done", !.err = "notFound"]
                    ELSE IF expect # NoVersion /\ expect # svc.db
                    THEN [k EXCEPT !.pc = "done", !.ref = svc.db,
                                   !.err = "preConditionFailed"]
                    ELSE [k EXCEPT !.pc = "lock", !.ref = svc.db]]
    /\ UNCHANGED <<serVars, mvVars, hnd>>

\* s.Lock.Lock returns nil: the lock was free and is now held by the call
ServiceLock ==
    /\ \E c \in Callers :
          /\ svc.calls[c].pc = "lock"
          /\ svc.lock = Free
          /\ svc' = [svc EXCEPT !.lock = c,
                                !.calls[c] = [Called(@, "Lock") EXCEPT !.pc = "filters"]]
    /\ UNCHANGED <<serVars, mvVars, hnd>>

\* s.Lock.Lock returns an error
ServiceLockFails ==
    /\ \E c \in Callers :
          /\ svc.calls[c].pc = "lock"
          /\ svc' = [svc EXCEPT !.calls[c] = Return(Called(@, "LockErr"), "lockErr")]
    /\ UNCHANGED <<serVars, mvVars, hnd>>

\* the filters, then the comparison of the versions: a filter fails, or the
\* payload keeps the version of ref, or it has a version of its own
ServiceFilters ==
    /\ \E c \in Callers, out \in {"err", "same", "bumped"} :
          LET k == Called(svc.calls[c], "Filter")
          IN  /\ svc.calls[c].pc = "filters"
              /\ svc' = [svc EXCEPT !.calls[c] =
                    CASE out = "err" -> Return(k, "filterErr")
                      [] out = "same" -> Return([k EXCEPT !.payload = k.ref], "nil")
                      [] out = "bumped" -> [k EXCEPT !.payload = c, !.pc = "save"]]
    /\ UNCHANGED <<serVars, mvVars, hnd>>

\* the event is published whatever Database.Replace returned
ServiceSave_PublishesOnError ==
    /\ \E c \in Callers, failed \in BOOLEAN :
          LET k == Called(Called(svc.calls[c], "Replace"), "Publish")
          IN  /\ svc.calls[c].pc = "save"
              /\ svc' = IF failed
                        THEN [svc EXCEPT !.calls[c] = Return(k, "dbErr")]
                        ELSE [svc EXCEPT !.db = k.payload,
                                         !.calls[c] = Return(k, "nil")]
    /\ UNCHANGED <<serVars, mvVars, hnd>>

\* s.Database.Replace, then s.Event.ResourceUpdated; fresh remembers whether
\* ref was still the stored resource when Replace was called
ServiceSave ==
    /\ \E c \in Callers, failed \in BOOLEAN :
          LET k == [Called(svc.calls[c], "Replace") EXCEPT
                       !.fresh = (svc.db = svc.calls[c].ref)]
          IN  /\ svc.calls[c].pc = "save"
              /\ svc' = IF failed
                        THEN [svc EXCEPT !.calls[c] = Return(k, "dbErr")]
                        ELSE [svc EXCEPT !.db = k.payload,
                                         !.calls[c] =
                                             Return(IF svc.event THEN Called(k, "Publish")
                                                    ELSE k, "nil")]
    /\ UNCHANGED <<serVars, mvVars, hnd>>

\* the deferred s.Lock.Unlock, then the return; what Unlock does to a lock
\* that another call holds is up to the lock: it stays held or is released
ServiceUnlock ==
    /\ \E c \in Callers, released \in BOOLEAN :
          /\ svc.calls[c].pc = "unlock"
          /\ svc' = [svc EXCEPT
                        !.lock = IF @ = c \/ released THEN Free ELSE @,
                        !.calls[c] = [Called(@, "Unlock") EXCEPT !.pc = "done"]]
    /\ UNCHANGED <<serVars, mvVars, hnd>>

NextService ==
    \/ ServiceGet
    \/ ServiceLock
    \/ ServiceLockFails
    \/ ServiceFilters
    \/ ServiceSave
    \/ ServiceUnlock

SpecService == InitService /\ [][NextService]_vars

(***************************************************************************)
(* The Replace handler: each invocation calls ReplaceResource              *)
(***************************************************************************)
InitHandler ==
    /\ schema = BaseSchema
    /\ res = [assigned |-> {}, nElems |-> 0, float |-> "finite"]
    /\ options = [included |-> <<>>, excluded |-> <<>>]
    /\ pc = "done"
    /\ ser = NewSerializer
    /\ todo = <<>>
    /\ asked = {}
    /\ emitted = <<>>
    /\ result = NoResult
    /\ mvAttr = [type |-> "string", caseExact |-> TRUE]
    /\ mv = NewMulti
    /\ mvLast = Call("none", NilValue, NewMulti, "nil")
    /\ svc \in {[IdleService EXCEPT
                     !.event = e,
                     !.calls = [c \in Callers |-> [NewCall EXCEPT !.pc = "idle"]]] :
                 e \in BOOLEAN}
    /\ hnd = IdleHandlers

\* Handle up to the call of ReplaceResource: the body is read and parsed
HandleStart ==
    \E c \in Callers, out \in {"readErr", "invalidSyntax", "invalidValue", "ok"} :
        /\ hnd[c].pc = "start"
        /\ hnd' = [hnd EXCEPT ![c] =
              CASE out = "readErr" ->
                     [pc |-> "done", stage |-> "read",
                      resp |-> WriteError(@.resp, "internal")]
                [] out = "ok" -> [@ EXCEPT !.pc = "service"]
                [] OTHER ->
                     [pc |-> "done", stage |-> "parse",
                      resp |-> WriteError(@.resp, out)]]
        /\ svc' = IF out = "ok" THEN [svc EXCEPT !.calls[c].pc = "get"] ELSE svc
        /\ UNCHANGED <<serVars, mvVars>>

\* Handle after ReplaceResource returned
HandleFinish ==
    \E c \in Callers, serErr \in {"nil", "internal"} :
        LET k == svc.calls[c]
        IN  /\ hnd[c].pc = "service" /\ k.pc = "done"
            /\ hnd' = [hnd EXCEPT ![c] =
                  IF k.err # "nil"
                  THEN [pc |-> "done", stage |-> "service",
                        resp |-> WriteError(@.resp, k.err)]
                  ELSE [pc |-> "done",
                        stage |-> IF k.payload # k.ref /\ serErr # "nil"
                                  THEN "serialize" ELSE "ok",
                        resp |-> Respond(@.resp, k.ref, k.payload, serErr)]]
            /\ UNCHANGED <<serVars, mvVars, svc>>

NextHandler ==
    \/ HandleStart
    \/ HandleFinish
    \/ NextService

SpecHandler == InitHandler /\ [][NextHandler]_vars

(***************************************************************************)
(* Properties of the serializer                                            *)
(***************************************************************************)
Included == ~ser.includeFamily.isNil

Excluded == ~ser.excludeFamily.isNil

ReturnedOf(n) == schema[AttrOf(n)].returned

WriteOnly(n) == schema[AttrOf(n)].mutability = "writeOnly"

EmittedProps == {emitted[i] : i \in 1..Len(emitted)}

\* C1: with an exclude family, ShouldVisit on a returned=default property that
\* is not writeOnly is true if and only if its path is neither a member of the
\* family nor an offspring of a member.
C1_ExcludeHidesFamily ==
    \A r \in asked :
        (Excluded /\ ReturnedOf(r.node) = "default" /\ ~WriteOnly(r.node)) =>
            (r.result <=> ~(\/ IsMember(ser.excludeFamily, AttrOf(r.node))
                           \/ IsOffspring(ser.excludeFamily, AttrOf(r.node))))

\* C2: no writeOnly property is visited or emitted, whatever its returned
\* disposition and whatever the projection.
C2_WriteOnlyNeverEmitted ==
    /\ \A r \in asked : WriteOnly(r.node) => ~r.result
    /\ \A n \in EmittedProps : ~WriteOnly(n)
    /\ \A i \in 1..Len(ser.buf) :
          ser.buf[i].t = "name" =>
              \A a \in AttrIds :
                  Last(a) = ser.buf[i].a => schema[a].mutability # "writeOnly"

C2_Witness ==
    \E r \in asked :
        /\ WriteOnly(r.node) /\ ReturnedOf(r.node) = "always"
        /\ Included /\ IsMember(ser.includeFamily, AttrOf(r.node))
        /\ pc = "done"

\* C3: with an include family, ShouldVisit on a returned=default property that
\* is not writeOnly is true if and only if its path is a member, an ancestor or
\* an offspring in the family, assigned or not.
C3_IncludeShowsFamily ==
    \A r \in asked :
        (Included /\ ReturnedOf(r.node) = "default" /\ ~WriteOnly(r.node)) =>
            (r.result <=> (\/ IsMember(ser.includeFamily, AttrOf(r.node))
                          \/ IsAncestor(ser.includeFamily, AttrOf(r.node))
                          \/ IsOffspring(ser.includeFamily, AttrOf(r.node))))

C3_Witness ==
    \E r1, r2 \in asked :
        /\ Included
        /\ ReturnedOf(r1.node) = "default" /\ ~WriteOnly(r1.node)
        /\ IsAncestor(ser.includeFamily, AttrOf(r1.node))
        /\ ~IsMember(ser.includeFamily, AttrOf(r1.node))
        /\ IsUnassigned(r1.node) /\ r1.result
        /\ ReturnedOf(r2.node) = "default" /\ ~WriteOnly(r2.node)
        /\ ~IsUnassigned(r2.node) /\ ~r2.result

C5_AlwaysAndNever ==
    \A r \in asked :
        ~WriteOnly(r.node) =>
            /\ ReturnedOf(r.node) = "always" => r.result
            /\ ReturnedOf(r.node) = "never" => ~r.result

C5_Witness ==
    \E r1, r2 \in asked :
        /\ ReturnedOf(r1.node) = "always" /\ ~WriteOnly(r1.node)
        /\ IsUnassigned(r1.node) /\ r1.result
        /\ ReturnedOf(r2.node) = "never" /\ ~WriteOnly(r2.node)
        /\ Included /\ IsMember(ser.includeFamily, AttrOf(r2.node))
        /\ ~IsUnassigned(r2.node) /\ ~r2.result

\* C6: for a returned=request property ShouldVisit is true only with an include
\* family in which the path is a member, an ancestor or an offspring; with no
\* projection or with an exclude family it is false.
C6_RequestOnlyWhenIncluded ==
    \A r \in asked :
        ReturnedOf(r.node) = "request" =>
            /\ r.result =>
                  /\ Included
                  /\ \/ IsMember(ser.includeFamily, AttrOf(r.node))
                     \/ IsAncestor(ser.includeFamily, AttrOf(r.node))
                     \/ IsOffspring(ser.includeFamily, AttrOf(r.node))
            /\ ~Included => ~r.result

C6_Witness ==
    \E r \in asked :
        /\ ReturnedOf(r.node) = "request" /\ ~WriteOnly(r.node)
        /\ Included /\ IsAncestor(ser.includeFamily, AttrOf(r.node))
        /\ r.result

\* C7: with no projection, a returned=default property that is not writeOnly
\* is visited if and only if it is assigned.
C7_DefaultIffAssigned ==
    \A r \in asked :
        (~Included /\ ~Excluded /\ ReturnedOf(r.node) = "default"
            /\ ~WriteOnly(r.node)) =>
            (r.result <=> ~IsUnassigned(r.node))

C7_Witness ==
    \E r1, r2 \in asked :
        /\ ~Included /\ ~Excluded
        /\ ReturnedOf(r1.node) = "default" /\ ~WriteOnly(r1.node)
        /\ ~IsUnassigned(r1.node) /\ r1.result
        /\ ReturnedOf(r2.node) = "default" /\ ~WriteOnly(r2.node)
        /\ IsUnassigned(r2.node) /\ ~r2.result

\* C8: Serialize with both included and excluded non-empty fails with
\* invalidRequest, returns no bytes and never starts the traversal; with at most
\* one of them non-empty it never fails with invalidRequest.
C8_BothListsRejected ==
    IF Len(options.included) > 0 /\ Len(options.excluded) > 0
    THEN /\ pc \in {"start", "done"}
         /\ todo = <<>> /\ asked = {} /\ emitted = <<>> /\ ser = NewSerializer
         /\ pc = "done" =>
               /\ result.err = "invalidRequest"
               /\ result.bytesNil /\ result.bytes = <<>>
    ELSE result.err # "invalidRequest"

C8_Witness ==
    /\ Len(options.included) > 0 /\ Len(options.excluded) > 0
    /\ pc = "done" /\ result.returned

(***************************************************************************)
(* Properties of the multi-valued property                                 *)
(***************************************************************************)
IndexPermutations(n) ==
    { f \in [1..n -> 1..n] : \A i, j \in 1..n : f[i] = f[j] => i = j }

Permute(p, f) ==
    [p EXCEPT !.elements = [i \in 1..Len(p.elements) |-> p.elements[f[i]]]]

\* C9: from an empty property, after any sequence of Add, Replace and Delete
\* calls no two distinct stored elements Match each other, and Add([v, v]) on
\* an empty property leaves CountChildren() = 1.
C9_NoTwoElementsMatch ==
    /\ \A i, j \in 1..Len(mv.elements) :
          i # j => ~ElemMatches(mv.elements[i], mv.elements[j])
    /\ \A v \in Items :
          v.kind = mvAttr.type =>
              CountChildren(Add(NewMulti, ListValue(<<v, v>>)).p) = 1

C9_Witness ==
    /\ mvLast.op = "Add" /\ mvLast.kind = "list" /\ mvLast.wasEmpty
    /\ mvLast.nonNil = 2 /\ mvLast.err = "nil"
    /\ CountChildren(mv) = 1 /\ mv.touched

\* C10: Hash() of a multi-valued property equals Hash() of the property with
\* its elements in any other order.
C10_HashIgnoresOrder ==
    \A f \in IndexPermutations(Len(mv.elements)) : Hash(Permute(mv, f)) = Hash(mv)

C10_Witness ==
    \E i, j \in 1..Len(mv.elements) :
        /\ i < j
        /\ ~ElemIsUnassigned(mv.elements[i]) /\ ~ElemIsUnassigned(mv.elements[j])
        /\ Greater64(ElemHash(mv.elements[i]), ElemHash(mv.elements[j]))
        /\ Len(mv.elements) = 3

\* C11: after every Add, Replace or Delete call on a multi-valued property
\* Touched() is true, also when the call added nothing new.
C11_EveryMutatorTouches ==
    mvLast.op \in {"Add", "Replace", "Delete"} => mv.touched

\* C12: the copy made by Clone(parent') has parent' as its parent, and every
\* element of the copy is a copy of the original element, in order, whose
\* parent is the copy itself.
C12_CloneRebindsParents ==
    mvLast.op = "Clone" =>
        /\ Parent(mvLast.c) = mvLast.given
        /\ Len(mvLast.c.elements) = Len(mv.elements)
        /\ \A i \in 1..Len(mv.elements) :
              /\ mvLast.c.elements[i].assigned = mv.elements[i].assigned
              /\ mvLast.c.elements[i].raw = mv.elements[i].raw
              /\ mvLast.c.elements[i].parent = TheClone

\* C13: Propagate(e) notifies the property's subscribers one at a time in
\* Subscribe order; the first subscriber error ends the chain and is
\* returned; the parent is notified after all subscribers returned without
\* error, and only if it exists and e.WillPropagate() is true.
C13_PropagateInOrder ==
    mvLast.op = "Propagate" =>
        LET subs == mv.subscribers
            log == mvLast.log
            bad == {i \in 1..Len(subs) : subs[i] \in mvLast.failing}
            first == CHOOSE i \in bad : \A j \in bad : i <= j
            told == IF bad = {} THEN Len(subs) ELSE first
            up == bad = {} /\ mv.parent # NilContainer /\ mvLast.event.willPropagate
        IN  /\ Len(log) = told + (IF up THEN 1 ELSE 0)
            /\ \A i \in 1..told :
                  log[i].to = subs[i] /\ log[i].event = mvLast.event
            /\ up => /\ log[told + 1].to = mv.parent
                     /\ log[told + 1].event = mvLast.event
            /\ mvLast.err = IF bad # {} THEN subs[first]
                             ELSE IF up /\ mvLast.parentFails THEN mv.parent
                             ELSE "nil"

C13_Witness ==
    /\ mvLast.op = "Propagate"
    /\ Len(mv.subscribers) = 2 /\ mv.subscribers[1] # mv.subscribers[2]
    /\ mvLast.failing = {} /\ mvLast.err = "nil"
    /\ mv.parent # NilContainer /\ mvLast.event.willPropagate
    /\ Len(mvLast.log) = 3 /\ mvLast.log[3].to = mv.parent

\* C14: every Add, Replace or Delete call that returns no error and changes
\* the elements of a multi-valued property delivers an event to each of the
\* property's subscribers.
C14_MutationsNotify ==
    [][(/\ mvLast'.op \in {"Add", "Replace", "Delete"}
        /\ mvLast'.err = "nil"
        /\ mv'.elements # mv.elements)
       => \A i \in 1..Len(mv.subscribers) :
              \E k \in 1..Len(mvLast'.notified) :
                  mvLast'.notified[k].to = mv.subscribers[i]]_vars

\* C15: Compact() removes exactly the unassigned elements and keeps every
\* other element in the same relative order, and changes nothing else of the
\* property.
C15_CompactKeepsAssigned ==
    [][mvLast'.op = "Compact" =>
          mv' = [mv EXCEPT !.elements = SelectSeq(@, LAMBDA e : e.assigned)]]_vars

C15_Witness ==
    /\ mvLast.op = "Compact"
    /\ mvLast.pattern = <<FALSE, TRUE, FALSE>>
    /\ Len(mv.elements) = 1 /\ mv.elements[1].assigned

\* C16: StartsWith, EndsWith, Contains, GreaterThan and LessThan on a
\* multi-valued property return false together with an error of kind
\* incompatibleOperation.
C16_PredicatesIncompatible ==
    mvLast.op \in Predicates =>
        mvLast.ret = FALSE /\ mvLast.err = "incompatibleOperation"

\* the containers whose children are being visited, outermost first
OpenNodes ==
    LET ends == SelectSeq(todo, LAMBDA t : t.op = "end")
    IN  [k \in 1..Len(ends) |-> ends[Len(ends) + 1 - k].node]

\* the emitted children of container c that are complete: a child container
\* still open is not
Completed(c, k) ==
    Cardinality({i \in 1..Len(emitted) :
                    /\ Len(emitted[i]) = Len(c) + 1
                    /\ SubSeq(emitted[i], 1, Len(c)) = c})
        - (IF k < Len(OpenNodes) THEN 1 ELSE 0)

\* C17: the index of every frame equals the number of sibling properties
\* already emitted in its container, so that in the output every property
\* name but the first of its object follows a ',' and no ',' follows an
\* opening token or another ','.
C17_CommaBetweenSiblings ==
    /\ pc = "visit" /\ Len(ser.stack) = Len(OpenNodes) =>
          \A k \in 1..Len(ser.stack) :
              ser.stack[k].index = Completed(OpenNodes[k], k)
    /\ \A i \in 2..Len(ser.buf) :
          /\ ser.buf[i].t = "name" => ser.buf[i - 1].t \in {"{", ","}
          /\ ser.buf[i].t = "," => ser.buf[i - 1].t \notin {"{", "[", ","}

\* C18: when a visited decimal property holds NaN, +Inf or -Inf, Serialize
\* returns an error of kind internal and no JSON bytes.
C18_NaNReturnsInternal ==
    (/\ pc \notin {"start", "visit"}
     /\ \E i \in 1..Len(emitted) :
           /\ schema[AttrOf(emitted[i])].type = "decimal"
           /\ ~IsUnassigned(emitted[i])
           /\ res.float \in {"NaN", "+Inf", "-Inf"})
    => /\ result.returned /\ result.err = "internal"
       /\ result.bytesNil /\ result.bytes = <<>>

\* where name occurs in the calls made by call c
At(c, name) == {i \in 1..Len(svc.calls[c].trace) : svc.calls[c].trace[i] = name}

\* C19: in every ReplaceResource call, Database.Replace is called only after
\* Lock returned without error and before Unlock; and a call whose Lock
\* succeeded calls Unlock after everything else, before it returns.
C19_ReplaceUnderLock ==
    \A c \in Callers :
        LET t == svc.calls[c].trace
        IN  /\ \A i \in At(c, "Replace") :
                  /\ \E j \in At(c, "Lock") : j < i
                  /\ \A j \in At(c, "Unlock") : i < j
            /\ (svc.calls[c].pc = "done" /\ At(c, "Lock") # {}) =>
                  /\ At(c, "Unlock") = {Len(t)}
                  /\ \E j \in At(c, "Lock") : j < Len(t)

C19_Witness ==
    \E c \in Callers :
        /\ svc.calls[c].pc = "done" /\ svc.calls[c].err = "dbErr"
        /\ svc.calls[c].trace = <<"Get", "Lock", "Filter", "Replace", "Unlock">>

\* C20: when a call executes Database.Replace, the reference resource its
\* precondition and version comparison were evaluated against is still the
\* stored resource.
C20_NoLostUpdate ==
    \A c \in Callers : At(c, "Replace") # {} => svc.calls[c].fresh

\* C21: an Add call that returns an error leaves the element sequence and the
\* touched flag (and the rest of the property) exactly as they were before
\* the call.
C21_AddAllOrNothing ==
    [][(mvLast'.op = "Add" /\ mvLast'.err # "nil") => mv' = mv]_vars

\* a failing Add on a property that holds an element, after an earlier
\* candidate of the same sequence was built (its leaf event was delivered)
C21_Witness ==
    /\ mvLast.op = "Add" /\ mvLast.err = "invalidValue"
    /\ mvLast.kind = "list" /\ mvLast.nonNil = 2
    /\ Len(mvLast.notified) > 0
    /\ ~mvLast.wasEmpty /\ Len(mv.elements) = 1

\* C22: a ReplaceResource call calls Unlock only after its own Lock call
\* returned without error; a call whose Lock failed returns without calling
\* Unlock.
C22_UnlockOnlyAfterLock ==
    \A c \in Callers :
        /\ \A i \in At(c, "Unlock") : \E j \in At(c, "Lock") : j < i
        /\ At(c, "LockErr") # {} => At(c, "Unlock") = {}

\* C23: a ReplaceResource call calls Database.Replace exactly when its
\* filters returned no error and the payload's version differs from the
\* version of the reference; it publishes ResourceUpdated only right after a
\* Database.Replace that returned no error, and only when a publisher is set.
C23_ReplaceAndPublish ==
    \A c \in Callers :
        LET k == svc.calls[c]
            filtered == At(c, "Filter") # {} /\ k.pc \in {"save", "unlock", "done"}
        IN  /\ filtered =>
                  (At(c, "Replace") # {} \/ k.pc = "save"
                      <=> k.err # "filterErr" /\ k.payload # k.ref)
            /\ ~filtered => At(c, "Replace") = {}
            /\ \A i \in At(c, "Publish") :
                  /\ svc.event /\ k.err = "nil"
                  /\ i > 1 /\ k.trace[i - 1] = "Replace"
            /\ (At(c, "Replace") # {} /\ k.err = "nil" /\ svc.event)
                  => At(c, "Publish") # {}
            /\ Cardinality(At(c, "Replace")) <= 1 /\ Cardinality(At(c, "Publish")) <= 1

C23_Witness ==
    \E c \in Callers :
        /\ svc.calls[c].pc = "done" /\ svc.calls[c].err = "nil"
        /\ svc.calls[c].trace = <<"Get", "Lock", "Filter", "Replace", "Publish", "Unlock">>

\* C24: a finished invocation of the Replace handler has written exactly one
\* status and is one of: an error response without 200/204, ETag and
\* Location; 204 with Location and ETag and no body when the new version
\* equals the old one; 200 with the serialized resource, Location, ETag and
\* the SCIM content type when the version changed.  The service is not
\* called when reading or parsing the body failed, and nothing is written
\* before the invocation finishes.
C24_OneResponse ==
    \A c \in Callers :
        LET r == hnd[c].resp
            k == svc.calls[c]
        IN  /\ hnd[c].pc # "done" => r.statusWrites = 0 /\ r.status = 0
            /\ hnd[c].pc = "done" =>
                  /\ r.statusWrites = 1
                  /\ \/ /\ hnd[c].stage \in {"read", "parse", "service", "serialize"}
                        /\ r.error # "nil" /\ r.status \notin {200, 204}
                        /\ r.etag = NoVersion /\ ~r.location /\ ~r.contentType
                     \/ /\ hnd[c].stage = "ok" /\ r.error = "nil" /\ r.status = 204
                        /\ k.pc = "done" /\ k.err = "nil" /\ k.payload = k.ref
                        /\ r.location /\ r.etag = k.payload /\ r.body = "none"
                     \/ /\ hnd[c].stage = "ok" /\ r.error = "nil" /\ r.status = 200
                        /\ k.pc = "done" /\ k.err = "nil" /\ k.payload # k.ref
                        /\ r.location /\ r.etag = k.payload /\ r.body = "resource"
                        /\ r.contentType
                  /\ hnd[c].stage \in {"read", "parse"} => k.pc = "idle" /\ k.trace = <<>>

C24_Witness ==
    \E c, d \in Callers :
        /\ hnd[c].pc = "done" /\ hnd[c].resp.status = 200 /\ hnd[c].resp.etag = c
        /\ hnd[d].pc = "done" /\ hnd[d].stage = "serialize"

\* the opening tokens of buf that are not closed yet, outermost first; a
\* closing token that does not match the innermost open one, or that finds
\* none open, makes the result <<"bad">>
RECURSIVE OpenTokens(_, _)
OpenTokens(buf, open) ==
    IF buf = <<>> \/ open = <<"bad">> THEN open
    ELSE LET t == Head(buf).t
         IN  OpenTokens(Tail(buf),
                 IF t \in {"{", "["} THEN Append(open, t)
                 ELSE IF t \in {"}", "]"}
                 THEN IF open # <<>> /\ open[Len(open)] = (IF t = "}" THEN "{" ELSE "[")
                      THEN SubSeq(open, 1, Len(open) - 1)
                      ELSE <<"bad">>
                 ELSE open)

\* C25: during the traversal the frame stack has one frame per open
\* container, of the container's kind; every closing token written matches
\* the opening token of the same container (']' for a multi-valued
\* property, '}' for a complex one); EndChildren never finds the stack
\* empty; and the stack is empty once the outermost container is closed.
C25_StackMatchesContainers ==
    /\ pc = "visit" =>
          /\ Len(ser.stack) = Len(OpenNodes)
          /\ \A k \in 1..Len(OpenNodes) :
                /\ ser.stack[k].container =
                      (IF IsMultiProp(OpenNodes[k]) THEN containerArray
                       ELSE containerObject)
                /\ Len(OpenTokens(ser.buf, <<>>)) = Len(OpenNodes)
                /\ OpenTokens(ser.buf, <<>>)[k] =
                      (IF IsMultiProp(OpenNodes[k]) THEN "[" ELSE "{")
          /\ (todo # <<>> /\ Head(todo).op = "end") => Len(ser.stack) > 0
          /\ (todo = <<>>) => ser.stack = <<>> /\ OpenTokens(ser.buf, <<>>) = <<>>
    /\ pc = "done" => ser.stack = <<>> /\ OpenTokens(ser.buf, <<>>) = <<>>

C25_Witness ==
    /\ pc = "done" /\ ~result.bytesNil /\ ser.stack = <<>>
    /\ \E i \in 2..Len(result.bytes) :
          result.bytes[i].t = "]" /\ result.bytes[i - 1].t = "}"

====
